---- MODULE Spec2Model ----
(***************************************************************************)
(* Model of rocket::outcome (lib/src/outcome.rs): the three-variant        *)
(* Outcome<S, E, F> value type, its queries, consuming extractors, views,  *)
(* derived ordering, renderings and the IntoOutcome conversion trait.      *)
(*                                                                         *)
(* The payload types are instantiated as in the documentation examples of  *)
(* the source: S = i32, E = &str, F = usize.  An i32 is an integer of a    *)
(* small range that includes a negative number, a usize a small natural,   *)
(* and a &str payload a sequence of byte values (compared                  *)
(* lexicographically, as Rust compares str).                               *)
(***************************************************************************)
EXTENDS Integers, Sequences, FiniteSets, TLC

VARIABLES
    x,          \* the Outcome value held by the caller's binding
    built,      \* the constructor that built x
    moved,      \* TRUE once a consuming method has taken x by value
    borrow,     \* "none", "shared" (as_ref view alive), "mut" (as_mut view alive)
    view,       \* the Outcome<&S,&E,&F> / Outcome<&mut S,..> returned by as_ref / as_mut
    lastWrite,  \* the payload last written through an as_mut view of x
    pre,        \* x as it was just before the last operation
    op,         \* the last operation performed
    arg,        \* the argument of the last operation (message, other operand, ...)
    ret,        \* the value returned by the last operation
    pc,         \* "run", or "panicked" after a panic!
    panicMsg,   \* the panic message when pc = "panicked"
    impl,       \* the IntoOutcome implementation selected for the receiver's type
    want,       \* what the caller of into_outcome would like absence to map to
    isCopy      \* whether S, E and F are Copy, which makes Outcome<S, E, F> Copy

vars == <<x, built, moved, borrow, view, lastWrite, pre, op, arg, ret, pc, panicMsg, impl, want, isCopy>>

----------------------------------------------------------------------------
(* Bounds on the payload domains.                                          *)

MaxVal == 2
MaxLen == 2
MaxByte == 2

SVals == (0 - 1)..MaxVal
FVals == 0..MaxVal

RECURSIVE StrsOfLen(_)
StrsOfLen(n) ==
    IF n = 0 THEN {<<>>}
    ELSE {Append(s, b) : s \in StrsOfLen(n - 1), b \in 1..MaxByte}

EVals == UNION {StrsOfLen(n) : n \in 0..MaxLen}

Messages == {"success value", "no outcome here", ""}

(* The present values of an optional-presence receiver of into_outcome.    *)
PresentVals == {0}

----------------------------------------------------------------------------
(* The enum and its three constructors.                                    *)

Success(v) == [tag |-> "Success", payload |-> v]
Failure(v) == [tag |-> "Failure", payload |-> v]
Forward(v) == [tag |-> "Forward", payload |-> v]

Variants == {"Success", "Failure", "Forward"}

PayloadsOf(variant) ==
    CASE variant = "Success" -> SVals
      [] variant = "Failure" -> EVals
      [] variant = "Forward" -> FVals

Construct(variant, v) ==
    CASE variant = "Success" -> Success(v)
      [] variant = "Failure" -> Failure(v)
      [] variant = "Forward" -> Forward(v)

Outcome ==
    {Success(s) : s \in SVals} \cup {Failure(e) : e \in EVals}
        \cup {Forward(f) : f \in FVals}

Some(v) == [some |-> TRUE, value |-> v]
None == [some |-> FALSE]

Nothing == [kind |-> "nothing"]

----------------------------------------------------------------------------
(* The methods, as pure functions of the receiver.                         *)

(* How a call ends: it returns a value, or it panics with a message.       *)
Returned(v) == [kind |-> "return", value |-> v]
Panicked(msg) == [kind |-> "panic", msg |-> msg]

unwrap_any_non_forward(self) ==
    IF self.tag = "Forward" THEN Panicked("Expected a successful outcome!")
    ELSE Returned(self.payload)

unwrap(self) ==
    IF self.tag = "Success" THEN Returned(self.payload)
    ELSE Panicked("Expected a successful outcome!")

expect_without_message(self, message) ==
    IF self.tag = "Success" THEN Returned(self.payload)
    ELSE Panicked("Expected a successful outcome!")

expect(self, message) ==
    IF self.tag = "Success" THEN Returned(self.payload)
    ELSE Panicked("Outcome::expect() failed: " \o message)

is_success(self) == IF self.tag = "Success" THEN TRUE ELSE FALSE

is_failure_not_success(self) == IF self.tag = "Success" THEN FALSE ELSE TRUE

is_failure(self) == IF self.tag = "Failure" THEN TRUE ELSE FALSE

is_forward(self) == IF self.tag = "Forward" THEN TRUE ELSE FALSE

succeeded(self) == IF self.tag = "Success" THEN Some(self.payload) ELSE None

failed(self) == IF self.tag = "Failure" THEN Some(self.payload) ELSE None

forwarded_not_success(self) ==
    IF self.tag = "Success" THEN None ELSE Some(self.payload)

forwarded(self) == IF self.tag = "Forward" THEN Some(self.payload) ELSE None

(* A shared reference to the payload: what is read through it.             *)
SharedRef(v) == [deref |-> v]

(* An exclusive reference to the payload slot of the receiver.             *)
MutRef == [slot |-> "payload"]

as_ref_failure_as_forward(self) ==
    CASE self.tag = "Success" -> Success(SharedRef(self.payload))
      [] self.tag = "Failure" -> Forward(SharedRef(self.payload))
      [] self.tag = "Forward" -> Forward(SharedRef(self.payload))

as_ref(self) ==
    CASE self.tag = "Success" -> Success(SharedRef(self.payload))
      [] self.tag = "Failure" -> Failure(SharedRef(self.payload))
      [] self.tag = "Forward" -> Forward(SharedRef(self.payload))

as_mut(self) ==
    CASE self.tag = "Success" -> Success(MutRef)
      [] self.tag = "Failure" -> Failure(MutRef)
      [] self.tag = "Forward" -> Forward(MutRef)

(* `*val = v` through the exclusive reference held by an as_mut view.      *)
StoreDropped(self, v) == self

Store(self, v) == [self EXCEPT !.payload = v]

formatting_forward_as_failure(self) ==
    CASE self.tag = "Success" -> <<"Green", "Success">>
      [] self.tag = "Failure" -> <<"Red", "Failure">>
      [] self.tag = "Forward" -> <<"Red", "Failure">>

formatting(self) ==
    CASE self.tag = "Success" -> <<"Green", "Success">>
      [] self.tag = "Failure" -> <<"Red", "Failure">>
      [] self.tag = "Forward" -> <<"Yellow", "Forward">>

(* write!(f, "Outcome::{}", self.formatting().1)                           *)
DebugFmt(self) == "Outcome::" \o formatting(self)[2]

(* color.paint(string): the string, styled with the colour.                *)
Paint(color, string) == [style |-> color, text |-> string]

DisplayFmtUncoloured(self) == Paint("Plain", formatting(self)[2])

DisplayFmt(self) == Paint(formatting(self)[1], formatting(self)[2])

----------------------------------------------------------------------------
(* derive(PartialEq, PartialOrd, Eq, Ord): variants rank in declaration    *)
(* order, equal variants compare by payload.                               *)

CmpInt(a, b) ==
    IF a < b THEN "Less" ELSE IF a = b THEN "Equal" ELSE "Greater"

RECURSIVE CmpStr(_, _)
CmpStr(a, b) ==
    IF a = <<>> THEN (IF b = <<>> THEN "Equal" ELSE "Less")
    ELSE IF b = <<>> THEN "Greater"
    ELSE IF Head(a) # Head(b) THEN CmpInt(Head(a), Head(b))
    ELSE CmpStr(Tail(a), Tail(b))

CmpPayload(variant, a, b) ==
    IF variant = "Failure" THEN CmpStr(a, b) ELSE CmpInt(a, b)

DiscriminantForwardFirst(self) ==
    CASE self.tag = "Forward" -> 0
      [] self.tag = "Success" -> 1
      [] self.tag = "Failure" -> 2

Discriminant(self) ==
    CASE self.tag = "Success" -> 0
      [] self.tag = "Failure" -> 1
      [] self.tag = "Forward" -> 2

cmp(self, other) ==
    IF Discriminant(self) # Discriminant(other)
    THEN CmpInt(Discriminant(self), Discriminant(other))
    ELSE CmpPayload(self.tag, self.payload, other.payload)

eq(self, other) ==
    /\ Discriminant(self) = Discriminant(other)
    /\ self.payload = other.payload

----------------------------------------------------------------------------
(* trait IntoOutcome<S, E, F> { fn into_outcome(self) -> Outcome<S, E, F> } *)
(* for an optional-presence receiver.  The trait only declares the         *)
(* signature: an implementation is some function of the receiver.          *)

OptionVals == {None} \cup {Some(s) : s \in PresentVals}

Implementations == [OptionVals -> Outcome]

(* What a caller may wish an absent value to become.                       *)
Policies == {Failure(e) : e \in EVals} \cup {Forward(f) : f \in FVals}

into_outcome_with_policy(implementation, self) ==
    IF self.some THEN implementation[self] ELSE want'

into_outcome(implementation, self) == implementation[self]

----------------------------------------------------------------------------
(* State machine: a caller holding one Outcome binding `x`.  A method      *)
(* taking `self` by value moves x (or copies it when the type is Copy);    *)
(* as_ref / as_mut borrow it until the view is dropped; a panic ends the   *)
(* run.                                                                    *)

Init ==
    /\ \E variant \in Variants :
        \E v \in PayloadsOf(variant) :
            /\ x = Construct(variant, v)
            /\ built = variant
    /\ moved = FALSE
    /\ borrow = "none"
    /\ view = Nothing
    /\ lastWrite = None
    /\ pre = x
    /\ op = "new"
    /\ arg = Nothing
    /\ ret = Nothing
    /\ pc = "run"
    /\ panicMsg = ""
    /\ impl = Nothing
    /\ want = Nothing
    /\ isCopy \in BOOLEAN

Usable == pc = "run" /\ ~moved

(* A method taking `self` by value moves the receiver out of the binding,  *)
(* unless Outcome<S, E, F> is Copy: then the method gets a copy.           *)
TakeByValue == moved' = ~isCopy

Record(o, a, r) ==
    /\ pre' = x
    /\ op' = o
    /\ arg' = a
    /\ ret' = r

(* let x = Success(v) | Failure(e) | Forward(f);                           *)
New ==
    /\ pc = "run"
    /\ borrow = "none"
    /\ \E variant \in Variants :
        \E v \in PayloadsOf(variant) :
            /\ x' = Construct(variant, v)
            /\ built' = variant
    /\ moved' = FALSE
    /\ lastWrite' = None
    /\ Record("new", Nothing, Nothing)
    /\ UNCHANGED <<borrow, view, pc, panicMsg, impl, want, isCopy>>

IsSuccessCall ==
    /\ Usable
    /\ borrow # "mut"
    /\ Record("is_success", Nothing, Returned(is_success(x)))
    /\ UNCHANGED <<x, built, moved, borrow, view, lastWrite, pc, panicMsg, impl, want, isCopy>>

IsFailureCall ==
    /\ Usable
    /\ borrow # "mut"
    /\ Record("is_failure", Nothing, Returned(is_failure(x)))
    /\ UNCHANGED <<x, built, moved, borrow, view, lastWrite, pc, panicMsg, impl, want, isCopy>>

IsForwardCall ==
    /\ Usable
    /\ borrow # "mut"
    /\ Record("is_forward", Nothing, Returned(is_forward(x)))
    /\ UNCHANGED <<x, built, moved, borrow, view, lastWrite, pc, panicMsg, impl, want, isCopy>>

SucceededCall ==
    /\ Usable
    /\ borrow = "none"
    /\ Record("succeeded", Nothing, Returned(succeeded(x)))
    /\ TakeByValue
    /\ UNCHANGED <<x, built, borrow, view, lastWrite, pc, panicMsg, impl, want, isCopy>>

FailedCall ==
    /\ Usable
    /\ borrow = "none"
    /\ Record("failed", Nothing, Returned(failed(x)))
    /\ TakeByValue
    /\ UNCHANGED <<x, built, borrow, view, lastWrite, pc, panicMsg, impl, want, isCopy>>

ForwardedCall ==
    /\ Usable
    /\ borrow = "none"
    /\ Record("forwarded", Nothing, Returned(forwarded(x)))
    /\ TakeByValue
    /\ UNCHANGED <<x, built, borrow, view, lastWrite, pc, panicMsg, impl, want, isCopy>>

(* The end of a call that may panic: the value comes back, or the run      *)
(* aborts with the panic message and nothing is returned.                  *)
Finish(o, a, result) ==
    IF result.kind = "return"
    THEN /\ Record(o, a, Returned(result.value))
         /\ UNCHANGED <<pc, panicMsg>>
    ELSE /\ Record(o, a, Nothing)
         /\ pc' = "panicked"
         /\ panicMsg' = result.msg

UnwrapCall ==
    /\ Usable
    /\ borrow = "none"
    /\ Finish("unwrap", Nothing, unwrap(x))
    /\ TakeByValue
    /\ UNCHANGED <<x, built, borrow, view, lastWrite, impl, want, isCopy>>

ExpectCall ==
    /\ Usable
    /\ borrow = "none"
    /\ \E message \in Messages :
        Finish("expect", message, expect(x, message))
    /\ TakeByValue
    /\ UNCHANGED <<x, built, borrow, view, lastWrite, impl, want, isCopy>>

AsRefCall ==
    /\ Usable
    /\ borrow = "none"
    /\ view' = as_ref(x)
    /\ borrow' = "shared"
    /\ Record("as_ref", Nothing, Nothing)
    /\ UNCHANGED <<x, built, moved, lastWrite, pc, panicMsg, impl, want, isCopy>>

AsMutCall ==
    /\ Usable
    /\ borrow = "none"
    /\ view' = as_mut(x)
    /\ borrow' = "mut"
    /\ Record("as_mut", Nothing, Nothing)
    /\ UNCHANGED <<x, built, moved, lastWrite, pc, panicMsg, impl, want, isCopy>>

(* if let Success(val) = x.as_mut() { *val = v; }  (and likewise for the   *)
(* other two variants): the written value has the type of the view's       *)
(* variant.                                                                *)
WriteThroughView ==
    /\ pc = "run"
    /\ borrow = "mut"
    /\ \E v \in PayloadsOf(view.tag) :
        /\ x' = Store(x, v)
        /\ lastWrite' = Some(v)
        /\ Record("write", v, Nothing)
    /\ UNCHANGED <<built, moved, borrow, view, pc, panicMsg, impl, want, isCopy>>

(* The view goes out of scope and the borrow of x ends.                    *)
DropView ==
    /\ pc = "run"
    /\ borrow # "none"
    /\ borrow' = "none"
    /\ view' = Nothing
    /\ Record("drop_view", Nothing, Nothing)
    /\ UNCHANGED <<x, built, moved, lastWrite, pc, panicMsg, impl, want, isCopy>>

CmpCall ==
    /\ Usable
    /\ borrow # "mut"
    /\ \E other \in Outcome :
        Record("cmp", other, Returned(cmp(x, other)))
    /\ UNCHANGED <<x, built, moved, borrow, view, lastWrite, pc, panicMsg, impl, want, isCopy>>

DebugCall ==
    /\ Usable
    /\ borrow # "mut"
    /\ Record("debug", Nothing, Returned(DebugFmt(x)))
    /\ UNCHANGED <<x, built, moved, borrow, view, lastWrite, pc, panicMsg, impl, want, isCopy>>

DisplayCall ==
    /\ Usable
    /\ borrow # "mut"
    /\ Record("display", Nothing, Returned(DisplayFmt(x)))
    /\ UNCHANGED <<x, built, moved, borrow, view, lastWrite, pc, panicMsg, impl, want, isCopy>>

Next ==
    \/ New
    \/ IsSuccessCall
    \/ IsFailureCall
    \/ IsForwardCall
    \/ SucceededCall
    \/ FailedCall
    \/ ForwardedCall
    \/ UnwrapCall
    \/ ExpectCall
    \/ AsRefCall
    \/ AsMutCall
    \/ WriteThroughView
    \/ DropView
    \/ CmpCall
    \/ DebugCall
    \/ DisplayCall

Spec == Init /\ [][Next]_vars

----------------------------------------------------------------------------
(* Conversions through IntoOutcome: the implementation is fixed by the     *)
(* types involved; each call passes the receiver and nothing else.         *)

InitAdapt ==
    /\ x = Success(0)
    /\ built = "Success"
    /\ moved = FALSE
    /\ borrow = "none"
    /\ view = Nothing
    /\ lastWrite = None
    /\ pre = x
    /\ op = "new"
    /\ arg = Nothing
    /\ ret = Nothing
    /\ pc = "run"
    /\ panicMsg = ""
    /\ impl \in Implementations
    /\ want = Nothing
    /\ isCopy = TRUE

IntoOutcomeCall ==
    /\ pc = "run"
    /\ \E self \in OptionVals :
        \E policy \in Policies :
            /\ want' = policy
            /\ Record("into_outcome", self, Returned(into_outcome(impl, self)))
    /\ UNCHANGED <<x, built, moved, borrow, view, lastWrite, pc, panicMsg, impl, isCopy>>

NextAdapt == IntoOutcomeCall

SpecAdapt == InitAdapt /\ [][NextAdapt]_vars

----------------------------------------------------------------------------
(* Properties.                                                             *)

(* C1: for every constructed Outcome exactly one of is_success,            *)
(* is_failure, is_forward is true, and it is the one named after the       *)
(* constructor that built the value; each query call returns that answer.  *)
ExactlyOneQueryNamesConstructor ==
    /\ Cardinality({q \in {"s", "e", "f"} :
            \/ q = "s" /\ is_success(x)
            \/ q = "e" /\ is_failure(x)
            \/ q = "f" /\ is_forward(x)}) = 1
    /\ is_success(x) <=> built = "Success"
    /\ is_failure(x) <=> built = "Failure"
    /\ is_forward(x) <=> built = "Forward"
    /\ op = "is_success" => ret.value = (built = "Success")
    /\ op = "is_failure" => ret.value = (built = "Failure")
    /\ op = "is_forward" => ret.value = (built = "Forward")

FailureQueriedAsFailure ==
    /\ op = "is_failure"
    /\ built = "Failure"
    /\ ret.value = TRUE
    /\ ~is_success(x)
    /\ ~is_forward(x)

(* C2: succeeded / failed / forwarded return the payload as present when   *)
(* the receiver is Success / Failure / Forward respectively and absent     *)
(* otherwise, so presence agrees with is_success / is_failure /            *)
(* is_forward, and the payload returned is the receiver's payload.         *)
ExtractorFor(o) ==
    CASE o = "succeeded" -> "Success"
      [] o = "failed" -> "Failure"
      [] o = "forwarded" -> "Forward"

QueryFor(o, self) ==
    CASE o = "succeeded" -> is_success(self)
      [] o = "failed" -> is_failure(self)
      [] o = "forwarded" -> is_forward(self)

ExtractorsReturnOwnVariantOnly ==
    op \in {"succeeded", "failed", "forwarded"} =>
        /\ ret.value.some = (built = ExtractorFor(op))
        /\ ret.value.some = QueryFor(op, x)
        /\ ret.value.some => ret.value.value = x.payload

ForwardExtractedAndFailureDiscarded ==
    \/ /\ op = "forwarded"
       /\ built = "Forward"
       /\ ret.value.some
       /\ ret.value.value = MaxVal
    \/ /\ op = "forwarded"
       /\ built = "Failure"
       /\ ~ret.value.some

(* C3: unwrap on Success(v) returns exactly v; on Failure or Forward it    *)
(* panics and returns nothing.                                             *)
UnwrapReturnsSuccessElsePanics ==
    op = "unwrap" =>
        IF built = "Success"
        THEN /\ pc = "run"
             /\ ret.kind = "return"
             /\ ret.value = x.payload
        ELSE /\ pc = "panicked"
             /\ ret.kind = "nothing"

UnwrapPanickedOnFailure ==
    /\ op = "unwrap"
    /\ built = "Failure"
    /\ pc = "panicked"
    /\ panicMsg = "Expected a successful outcome!"

(* C4: expect(message) returns or panics exactly as unwrap does on the     *)
(* same value, returns the same value when it returns, and its panic       *)
(* message contains the caller's message.                                  *)
Contains(haystack, needle) ==
    \E i \in 1..(Len(haystack) - Len(needle) + 1) :
        SubSeq(haystack, i, i + Len(needle) - 1) = needle

ExpectAgreesWithUnwrap ==
    op = "expect" =>
        /\ (pc = "panicked") = (unwrap(x).kind = "panic")
        /\ (ret.kind = "return") = (unwrap(x).kind = "return")
        /\ ret.kind = "return" => ret.value = unwrap(x).value
        /\ pc = "panicked" => Contains(panicMsg, arg)

ExpectPanickedWithMessage ==
    /\ op = "expect"
    /\ built = "Forward"
    /\ pc = "panicked"
    /\ arg = "no outcome here"
    /\ panicMsg = "Outcome::expect() failed: no outcome here"

(* C5: the ordering is total (every pair is Less, Equal or Greater,        *)
(* Equal only for equal values, antisymmetric and transitive) with         *)
(* Success < Failure < Forward whatever the payloads, and two values of    *)
(* one variant compare as their payloads compare (integers numerically,    *)
(* strings lexicographically).                                             *)
LexLess(a, b) ==
    \E k \in 0..Len(a) :
        /\ k <= Len(b)
        /\ \A i \in 1..k : a[i] = b[i]
        /\ \/ k = Len(a) /\ k < Len(b)
           \/ k < Len(a) /\ k < Len(b) /\ a[k + 1] < b[k + 1]

PayloadLess(variant, a, b) ==
    IF variant = "Failure" THEN LexLess(a, b) ELSE a < b

Flip(ordering) ==
    CASE ordering = "Less" -> "Greater"
      [] ordering = "Equal" -> "Equal"
      [] ordering = "Greater" -> "Less"

OrderingRanksVariantsThenPayload ==
    op = "cmp" =>
        /\ ret.value \in {"Less", "Equal", "Greater"}
        /\ (x.tag = "Success" /\ arg.tag = "Failure") => ret.value = "Less"
        /\ (x.tag = "Success" /\ arg.tag = "Forward") => ret.value = "Less"
        /\ (x.tag = "Failure" /\ arg.tag = "Forward") => ret.value = "Less"
        /\ (x.tag = "Failure" /\ arg.tag = "Success") => ret.value = "Greater"
        /\ (x.tag = "Forward" /\ arg.tag = "Success") => ret.value = "Greater"
        /\ (x.tag = "Forward" /\ arg.tag = "Failure") => ret.value = "Greater"
        /\ x.tag = arg.tag =>
            /\ (ret.value = "Less") = PayloadLess(x.tag, x.payload, arg.payload)
            /\ (ret.value = "Greater") = PayloadLess(x.tag, arg.payload, x.payload)
            /\ (ret.value = "Equal") = (x.payload = arg.payload)
        /\ (ret.value = "Equal") = eq(x, arg)
        /\ cmp(arg, x) = Flip(ret.value)
        /\ \A z \in Outcome :
            (ret.value = "Less" /\ cmp(arg, z) = "Less") => cmp(x, z) = "Less"

LargestSuccessBelowEmptyFailure ==
    /\ op = "cmp"
    /\ x.tag = "Success"
    /\ x.payload = MaxVal
    /\ arg.tag = "Failure"
    /\ arg.payload = <<>>
    /\ ret.value = "Less"

(* C6: as_mut yields a view of the receiver's variant; a write through     *)
(* the view replaces the payload and leaves the variant, hence the three   *)
(* queries, unchanged; a later unwrap of a Success returns the written     *)
(* value.                                                                  *)
MutableViewKeepsVariant ==
    /\ borrow = "mut" => view.tag = x.tag
    /\ op = "write" =>
        /\ x.tag = pre.tag
        /\ x.payload = arg
        /\ is_success(x) = is_success(pre)
        /\ is_failure(x) = is_failure(pre)
        /\ is_forward(x) = is_forward(pre)
    /\ (op = "unwrap" /\ lastWrite.some) =>
        IF built = "Success"
        THEN ret.kind = "return" /\ ret.value = lastWrite.value
        ELSE pc = "panicked"

WrittenSuccessUnwrapped ==
    /\ op = "unwrap"
    /\ lastWrite.some
    /\ built = "Success"
    /\ ret.kind = "return"
    /\ ret.value = MaxVal

(* C7: as_ref yields a view of the receiver's variant whose payload reads  *)
(* as the receiver's payload, and the receiver is unchanged and still      *)
(* usable after the call.                                                  *)
SharedViewMirrorsReceiver ==
    /\ borrow = "shared" =>
        /\ view.tag = x.tag
        /\ view.payload.deref = x.payload
    /\ op = "as_ref" =>
        /\ borrow = "shared"
        /\ x.tag = pre.tag
        /\ x.payload = pre.payload
        /\ Usable

FailureViewedByReference ==
    /\ op = "as_ref"
    /\ built = "Failure"
    /\ view.tag = "Failure"
    /\ Len(view.payload.deref) = MaxLen
    /\ Usable

DebugRendersVariantName ==
    op = "debug" =>
        ret.value = (CASE built = "Success" -> "Outcome::Success"
                       [] built = "Failure" -> "Outcome::Failure"
                       [] built = "Forward" -> "Outcome::Forward")

ForwardDebugRendered ==
    /\ op = "debug"
    /\ x = Forward(MaxVal)
    /\ ret.value = "Outcome::Forward"

(* C10 as stated: the Display rendering shows the text of the debug        *)
(* rendering, in the colour fixed for the variant.                         *)
DisplayShowsDebugText ==
    op = "display" =>
        /\ ret.value.text = DebugFmt(x)
        /\ ret.value.style = (CASE built = "Success" -> "Green"
                                [] built = "Failure" -> "Red"
                                [] built = "Forward" -> "Yellow")

(* C10 amended: the Display rendering is the bare variant name (Success,   *)
(* Failure, Forward: the debug text without its "Outcome::" prefix) in     *)
(* green, red or yellow according to the variant, whatever the payload.    *)
DisplayPaintsBareVariantName ==
    op = "display" =>
        /\ ret.value.text = (CASE built = "Success" -> "Success"
                               [] built = "Failure" -> "Failure"
                               [] built = "Forward" -> "Forward")
        /\ ret.value.style = (CASE built = "Success" -> "Green"
                                [] built = "Failure" -> "Red"
                                [] built = "Forward" -> "Yellow")
        /\ DebugFmt(x) = "Outcome::" \o ret.value.text

FailureDisplayedInRed ==
    /\ op = "display"
    /\ built = "Failure"
    /\ ret.value = Paint("Red", "Failure")

====
